---- MODULE Spec2Model ----
(***************************************************************************)
(* Fixed-window rate limiter of ai-rate-limiter (class RateLimiter and its *)
(* Express middleware).  The clock is an integer; one unit is half an hour *)
(* of the real clock, so the one-hour default window is two units long.    *)
(***************************************************************************)
EXTENDS Integers, Sequences, FiniteSets, TLC

VARIABLES
    storage,     \* this.storage: key -> [count, windowStart]; DOMAIN = stored keys
    limits,      \* this.limits: [guest, free, premium]
    windowSize,  \* this.windowSize
    now,         \* Date.now()
    obs,         \* observer: per key, the admissions seen in the running window
    last,        \* observer: the last engine call, its arguments, what it found and returned
    reqs,        \* the HTTP requests in flight: slot -> [stage, user, ip, status, remaining]
    race,        \* observer: per key, two calls in flight together at the last free slot
    probe,       \* inputs and outputs of the pure functions applied on their own
    processEnv,  \* process.env as the constructor read it
    unswept,     \* observer: the store of the same calls made with no sweep in between
    proc         \* the process: [serving, timer, exited]; timer is this._cleanupInterval

vars == <<storage, limits, windowSize, now, obs, last, reqs, race, probe, processEnv,
          unswept, proc>>

(***************************************************************************)
(* Bounds and scaled program constants                                     *)
(***************************************************************************)
\* The clock stops advancing here.
MaxTime == 2

\* The clock stops advancing here under the default limit table.
MaxTimeDefault == 1

\* HTTP requests in flight at a time.
MaxInFlight == 2

\* 60 * 60 * 1000 ms, in clock units.
HourMs == 2

\* Defaults of the constructor.
DefaultGuest == 3
DefaultFree == 10
DefaultPremium == 50
DefaultHours == 1

Max(a, b) == IF a >= b THEN a ELSE b

(***************************************************************************)
(* Identities (req.user) and origin addresses                              *)
(***************************************************************************)
\* A JavaScript id value: null, a number or a string.
NullId == [kind |-> "null", n |-> 0, s |-> ""]
NumId(n) == [kind |-> "num", n |-> n, s |-> ""]
StrId(s) == [kind |-> "str", n |-> 0, s |-> s]

\* Truthiness of an id value (null, 0 and "" are falsy).
Truthy(id) == \/ id.kind = "num" /\ id.n # 0
              \/ id.kind = "str" /\ id.s # ""

\* Template-literal rendering `${id}`.
IdText(id) == CASE id.kind = "num" -> ToString(id.n)
                [] id.kind = "str" -> id.s
                [] OTHER -> "null"

\* null (no req.user); type "" stands for a missing type property.
NoUser == [present |-> FALSE, type |-> "", id |-> NullId]
User(type, id) == [present |-> TRUE, type |-> type, id |-> id]

Guest == User("guest", NullId)
Free1 == User("free", NumId(1))
Free2 == User("free", NumId(2))
Premium1 == User("premium", NumId(1))
FreeStr1 == User("free", StrId("1"))
FreeNoId == User("free", NullId)
FreeZero == User("free", NumId(0))
Admin2 == User("admin", NumId(2))
Untyped2 == User("", NumId(2))

Users == {NoUser, Guest, Free1, Free2, Premium1, FreeStr1, FreeNoId, FreeZero,
          Admin2, Untyped2}

Ips == {"a", "b"}

Premium2 == User("premium", NumId(2))

\* The callers of the engine: (identity, origin address).
Clients == {<<NoUser, "a">>, <<NoUser, "b">>, <<Free1, "a">>, <<Free2, "a">>,
            <<FreeNoId, "a">>}

\* The callers of the HTTP routes: req.user as authenticateToken leaves it.
HttpClients == {<<Guest, "a">>, <<Free1, "a">>}

\* Identities whose tier names a member of Object.prototype.
Constructor3 == User("constructor", NumId(3))
ToString3 == User("toString", NumId(3))

\* The identities a verified token can carry here: jwt.verify hands over
\* whatever payload was signed.
PayloadUsers == {Free1, Constructor3}

\* The callers of the spec's end-to-end trace.
Free7 == User("free", NumId(7))
TraceClients == {<<NoUser, "10.0.0.1">>, <<Free7, "10.0.0.1">>, <<NoUser, "b">>}

\* The callers under the default limit table: one of each tier.
DefaultClients == {<<Guest, "a">>, <<Free1, "a">>, <<Premium2, "a">>}

(***************************************************************************)
(* Construction                                                            *)
(***************************************************************************)
\* process.env values after parseInt: NaN (unset or not a number) or an integer.
NaN == [nan |-> TRUE, n |-> 0]
Num(n) == [nan |-> FALSE, n |-> n]

\* parseInt(v) || d : NaN and 0 are falsy.
OrDefault(v, d) == IF v.nan \/ v.n = 0 THEN d ELSE v.n

\* No variable of the environment is set.
DefaultEnv == [GUEST_LIMIT |-> NaN, FREE_LIMIT |-> NaN, PREMIUM_LIMIT |-> NaN,
               WINDOW_SIZE_HOURS |-> NaN]

\* The environments the engine is constructed under here.
Envs == {[GUEST_LIMIT |-> Num(1), FREE_LIMIT |-> Num(2), PREMIUM_LIMIT |-> Num(3),
          WINDOW_SIZE_HOURS |-> NaN]}

\* The defaults of free and premium are swapped.
ConstructLimitsSwapped(env) ==
    [guest |-> OrDefault(env.GUEST_LIMIT, DefaultGuest),
     free |-> OrDefault(env.FREE_LIMIT, DefaultPremium),
     premium |-> OrDefault(env.PREMIUM_LIMIT, DefaultFree)]

ConstructLimits(env) ==
    [guest |-> OrDefault(env.GUEST_LIMIT, DefaultGuest),
     free |-> OrDefault(env.FREE_LIMIT, DefaultFree),
     premium |-> OrDefault(env.PREMIUM_LIMIT, DefaultPremium)]

ConstructWindowSize(env) == OrDefault(env.WINDOW_SIZE_HOURS, DefaultHours) * HourMs

\* The interval timer is left as setInterval returns it: it holds the process.
ConstructTimerRef == "ref"

\* this._cleanupInterval after setInterval(...) and unref(): a timer that is
\* scheduled ("ref": it holds the process; "unref": it does not) or "cleared".
ConstructTimer == "unref"

(***************************************************************************)
(* RateLimiter: pure parts                                                 *)
(***************************************************************************)
\* Keys every caller by origin address.
getKeyByIp(user, ip) == "ip:" \o ip

\* getKey(user, ip)
getKey(user, ip) ==
    IF user.present /\ user.type # "guest" /\ Truthy(user.id)
    THEN "user:" \o IdText(user.id)
    ELSE "ip:" \o ip

\* user?.type || 'guest'
UserType(user) == IF user.present /\ user.type # "" THEN user.type ELSE "guest"

\* The property names an object literal inherits from Object.prototype.
ObjectPrototypeNames ==
    {"constructor", "toString", "valueOf", "hasOwnProperty", "isPrototypeOf",
     "propertyIsEnumerable", "toLocaleString", "__proto__"}

\* The values a property read of this.limits yields: a number, undefined, or
\* an inherited member of Object.prototype (a function or object, never a number).
Number(n) == [kind |-> "number", n |-> n]
Undefined == [kind |-> "undefined", n |-> 0]
Inherited == [kind |-> "inherited", n |-> 0]

\* this.limits[name]
LimitsProperty(name) ==
    IF name \in DOMAIN limits THEN Number(limits[name])
    ELSE IF name \in ObjectPrototypeNames THEN Inherited
    ELSE Undefined

\* The left operand of v || d is returned when it is truthy.
TruthyValue(v) == v.kind = "inherited" \/ (v.kind = "number" /\ v.n # 0)

\* getLimit(user): this.limits[userType] || this.limits.guest, as a value
getLimitValue(user) ==
    LET v == LimitsProperty(UserType(user))
    IN IF TruthyValue(v) THEN v ELSE Number(limits.guest)

IsNumber(v) == v.kind = "number"

\* getLimit(user) as the number the engine computes with.  An inherited
\* member is no number: count < limit is then false, as it is for 0, and the
\* results built from it are marked numeric = FALSE (total is the member,
\* limit - count is NaN).
getLimit(user) == getLimitValue(user).n

\* (now - windowData.windowStart) >= this.windowSize
WindowExpired(data, t) == (t - data.windowStart) >= windowSize

\* !windowData || expired : the call starts a new window
StartsWindow(st, key, t) == key \notin DOMAIN st \/ WindowExpired(st[key], t)

\* Keeps the old windowStart when the window has expired (a sliding restart).
WindowDataKeepsStart(st, key, t) ==
    IF key \notin DOMAIN st THEN [count |-> 0, windowStart |-> t]
    ELSE IF WindowExpired(st[key], t) THEN [st[key] EXCEPT !.count = 0]
    ELSE st[key]

\* windowData of checkLimit after the get-or-initialize step
WindowData(st, key, t) ==
    IF StartsWindow(st, key, t) THEN [count |-> 0, windowStart |-> t] ELSE st[key]

\* const remaining = Math.max(0, limit - windowData.count)
Remaining(data, limit) == Max(0, limit - data.count)

\* Off by one the other way: denies the call that would take the last slot.
AllowedOneShort(data, limit) == data.count < limit - 1

\* Off by one: admits while count <= limit.
AllowedInclusive(data, limit) == data.count <= limit

\* const allowed = windowData.count < limit
Allowed(data, limit) == data.count < limit

\* The increment is lost: the count written back is the count read.
IncrementLost(data) == data

\* windowData.count++
Increment(data) == [data EXCEPT !.count = @ + 1]

\* this.storage.set(key, data)
StorageSet(st, key, data) ==
    [k \in DOMAIN st \cup {key} |-> IF k = key THEN data ELSE st[k]]

\* this.storage.delete(key) for each key of a set
StorageDelete(st, keys) == [k \in DOMAIN st \ keys |-> st[k]]

\* A denied call clears the count of the key.
CheckLimitStorageForgivesDenied(st, user, ip, t) ==
    IF Allowed(WindowData(st, getKey(user, ip), t), getLimit(user))
    THEN StorageSet(st, getKey(user, ip), Increment(WindowData(st, getKey(user, ip), t)))
    ELSE StorageSet(st, getKey(user, ip),
                    [WindowData(st, getKey(user, ip), t) EXCEPT !.count = 0])

\* Counts every call, admitted or denied.
CheckLimitStorageCountsDenied(st, user, ip, t) ==
    StorageSet(st, getKey(user, ip), Increment(WindowData(st, getKey(user, ip), t)))

\* A sliding window: every admitted call moves windowStart to its own time.
CheckLimitStorageSliding(st, user, ip, t) ==
    IF Allowed(WindowData(st, getKey(user, ip), t), getLimit(user))
    THEN StorageSet(st, getKey(user, ip),
                    [count |-> WindowData(st, getKey(user, ip), t).count + 1,
                     windowStart |-> t])
    ELSE IF StartsWindow(st, getKey(user, ip), t)
         THEN StorageSet(st, getKey(user, ip), WindowData(st, getKey(user, ip), t))
         ELSE st

\* The store checkLimit(user, ip) leaves at time t.
CheckLimitStorage(st, user, ip, t) ==
    LET key == getKey(user, ip)
        limit == getLimit(user)
        data == WindowData(st, key, t)
    IN IF Allowed(data, limit)
       THEN StorageSet(st, key, Increment(data))
       ELSE IF StartsWindow(st, key, t) THEN StorageSet(st, key, data) ELSE st

\* Reports the remaining value of before the call, also when it admits.
CheckLimitResultNoDecrement(st, user, ip, t) ==
    LET data == WindowData(st, getKey(user, ip), t)
    IN [allowed |-> Allowed(data, getLimit(user)),
        remaining |-> Remaining(data, getLimit(user)),
        total |-> getLimit(user),
        resetTime |-> data.windowStart + windowSize,
        userType |-> UserType(user),
        numeric |-> IsNumber(getLimitValue(user))]

\* The object checkLimit(user, ip) returns at time t.
CheckLimitResult(st, user, ip, t) ==
    LET key == getKey(user, ip)
        limit == getLimit(user)
        data == WindowData(st, key, t)
        remaining == Remaining(data, limit)
        allowed == Allowed(data, limit)
    IN [allowed |-> allowed,
        remaining |-> IF allowed THEN remaining - 1 ELSE remaining,
        total |-> limit,
        resetTime |-> data.windowStart + windowSize,
        userType |-> UserType(user),
        numeric |-> IsNumber(getLimitValue(user))]

\* Writes the fresh window back, as checkLimit does.
GetStatusStorageWritesBack(st, user, ip, t) ==
    IF StartsWindow(st, getKey(user, ip), t)
    THEN StorageSet(st, getKey(user, ip), [count |-> 0, windowStart |-> t])
    ELSE st

\* The store getStatus(user, ip) leaves: it writes nothing.
GetStatusStorage(st, user, ip, t) == st

\* Reports a stored window as it is, expired or not.
GetStatusResultIgnoresExpiry(st, user, ip, t) ==
    IF getKey(user, ip) \notin DOMAIN st
    THEN [allowed |-> FALSE, remaining |-> getLimit(user), total |-> getLimit(user),
          resetTime |-> t + windowSize, userType |-> UserType(user),
          numeric |-> IsNumber(getLimitValue(user))]
    ELSE [allowed |-> FALSE,
          remaining |-> Max(0, getLimit(user) - st[getKey(user, ip)].count),
          total |-> getLimit(user),
          resetTime |-> st[getKey(user, ip)].windowStart + windowSize,
          userType |-> UserType(user),
        numeric |-> IsNumber(getLimitValue(user))]

\* The object getStatus(user, ip) returns at time t (it has no allowed field;
\* the field is kept FALSE so that all results have one shape).
GetStatusResult(st, user, ip, t) ==
    LET key == getKey(user, ip)
        limit == getLimit(user)
    IN IF StartsWindow(st, key, t)
       THEN [allowed |-> FALSE, remaining |-> limit, total |-> limit,
             resetTime |-> t + windowSize, userType |-> UserType(user),
          numeric |-> IsNumber(getLimitValue(user))]
       ELSE [allowed |-> FALSE, remaining |-> Max(0, limit - st[key].count),
             total |-> limit, resetTime |-> st[key].windowStart + windowSize,
             userType |-> UserType(user),
        numeric |-> IsNumber(getLimitValue(user))]

\* Spares an entry whose window has run out exactly now.
KeysToDeleteStrict(st, t) == {k \in DOMAIN st : (t - st[k].windowStart) > windowSize}

\* Sweeps an entry one unit before its window runs out.
KeysToDeleteEarly(st, t) == {k \in DOMAIN st : (t - st[k].windowStart) >= windowSize - 1}

\* Finds nothing to sweep.
KeysToDeleteNone(st, t) == {}

\* keysToDelete of cleanup() at time t
KeysToDelete(st, t) == {k \in DOMAIN st : WindowExpired(st[k], t)}

\* The store cleanup() leaves at time t.
CleanupStorage(st, t) == StorageDelete(st, KeysToDelete(st, t))

\* Zeroes the key's count and keeps its entry and window.
ResetStorageZeroesCount(st, user, ip) ==
    IF getKey(user, ip) \in DOMAIN st
    THEN StorageSet(st, getKey(user, ip), [st[getKey(user, ip)] EXCEPT !.count = 0])
    ELSE st

\* The store reset(user, ip) leaves.
ResetStorage(st, user, ip) == StorageDelete(st, {getKey(user, ip)})

\* The object getDebugInfo() returns at time t.
getDebugInfo(st, t) ==
    [k \in DOMAIN st |->
        [count |-> st[k].count, windowStart |-> st[k].windowStart,
         timeRemaining |-> Max(0, (st[k].windowStart + windowSize) - t)]]

(***************************************************************************)
(* Observer                                                                *)
(***************************************************************************)
AllKeys ==
    {getKey(c[1], c[2]) : c \in Clients \cup HttpClients \cup DefaultClients \cup TraceClients}
    \cup {getKey(u, "a") : u \in PayloadUsers}

NoObs == [active |-> FALSE, start |-> 0, admitted |-> 0, limits |-> {}]

\* The window a checkLimit call at time t falls in, as seen from outside:
\* the running one, or a new one after expiry, after reset or on first use.
WindowOver(o, t) == o.active /\ (t - o.start) >= windowSize

ObsWindow(o, t) ==
    IF ~o.active \/ WindowOver(o, t)
    THEN [active |-> TRUE, start |-> t, admitted |-> 0, limits |-> {}]
    ELSE o

ObsCall(o, t, limit, allowed) ==
    LET w == ObsWindow(o, t)
    IN [w EXCEPT !.admitted = @ + (IF allowed THEN 1 ELSE 0),
                 !.limits = @ \cup {limit}]

NoResult == [allowed |-> FALSE, remaining |-> 0, total |-> 0, resetTime |-> 0,
             userType |-> "", numeric |-> TRUE]

\* What a call found under its key: "absent", "expired" or "active".
Found(st, key, t) ==
    IF key \notin DOMAIN st THEN "absent"
    ELSE IF WindowExpired(st[key], t) THEN "expired" ELSE "active"

NoEntry == [count |-> 0, windowStart |-> 0]

\* The entry of key k, or NoEntry when k is not stored.
EntryOf(st, k) == IF k \in DOMAIN st THEN st[k] ELSE NoEntry

Slots == 1..MaxInFlight

\* checked: checkLimit has been called for the request; allowed, remaining,
\* numeric and resetTime are those of its result (req.rateLimit and the
\* fields of the response).
NoRequest == [stage |-> "idle", user |-> NoUser, ip |-> "", status |-> 0,
              checked |-> FALSE, allowed |-> FALSE, remaining |-> 0,
              numeric |-> TRUE, resetTime |-> 0]

NoRace == [open |-> FALSE, closed |-> FALSE, start |-> 0, limit |-> 0,
           rivals |-> {}, first |-> FALSE, second |-> FALSE, count |-> 0]

NoProbe == [done |-> FALSE, u1 |-> NoUser, ip1 |-> "", u2 |-> NoUser, ip2 |-> "",
            k1 |-> "", k2 |-> "", lim |-> Undefined, trace |-> <<>>]

Call(op, user, ip, res) ==
    [op |-> op, user |-> user, ip |-> ip, at |-> now,
     found |-> IF op \in {"checkLimit", "getStatus", "reset"}
               THEN Found(storage, getKey(user, ip), now) ELSE "",
     before |-> IF op \in {"checkLimit", "getStatus", "reset"}
                   /\ getKey(user, ip) \in DOMAIN storage
                THEN storage[getKey(user, ip)] ELSE NoEntry,
     res |-> res]

(***************************************************************************)
(* The engine as a state machine                                           *)
(***************************************************************************)
\* new RateLimiter() under one of the environments of a set.
Construct(envs) ==
    /\ processEnv \in envs
    /\ limits = ConstructLimits(processEnv)
    /\ windowSize = ConstructWindowSize(processEnv)
    /\ storage = <<>>
    /\ unswept = <<>>
    /\ now = 0
    /\ obs = [k \in AllKeys |-> NoObs]
    /\ last = [op |-> "new", user |-> NoUser, ip |-> "", at |-> 0, found |-> "",
               before |-> NoEntry, res |-> NoResult]
    /\ reqs = [s \in Slots |-> NoRequest]
    /\ race = [k \in AllKeys |-> NoRace]
    /\ proc = [serving |-> TRUE, timer |-> ConstructTimer, exited |-> FALSE]

Init == Construct(Envs) /\ probe = NoProbe

\* The effect of one engine call on the engine and its observers.
CheckLimitCall(user, ip) ==
    LET res == CheckLimitResult(storage, user, ip, now)
        key == getKey(user, ip)
    IN /\ storage' = CheckLimitStorage(storage, user, ip, now)
       /\ last' = Call("checkLimit", user, ip, res)
       /\ obs' = [obs EXCEPT ![key] = ObsCall(@, now, getLimit(user), res.allowed)]
       /\ UNCHANGED <<limits, windowSize, now>>

GetStatusCall(user, ip) ==
    /\ storage' = GetStatusStorage(storage, user, ip, now)
    /\ last' = Call("getStatus", user, ip, GetStatusResult(storage, user, ip, now))
    /\ UNCHANGED <<limits, windowSize, now, obs>>

CleanupCall ==
    /\ storage' = CleanupStorage(storage, now)
    /\ last' = Call("cleanup", NoUser, "", NoResult)
    /\ UNCHANGED <<limits, windowSize, now, obs>>

ResetCall(user, ip) ==
    /\ storage' = ResetStorage(storage, user, ip)
    /\ last' = Call("reset", user, ip, NoResult)
    /\ obs' = [obs EXCEPT ![getKey(user, ip)] = NoObs]
    /\ UNCHANGED <<limits, windowSize, now>>

\* Date.now() has advanced by one unit.
Advance ==
    /\ now' = now + 1
    /\ UNCHANGED <<storage, limits, windowSize, obs, last, reqs, race, probe, processEnv, unswept, proc>>

\* Direct calls of the engine, as the unit tests make them.
checkLimit(user, ip) == CheckLimitCall(user, ip) /\ UNCHANGED <<reqs, race, probe, processEnv, unswept, proc>>

getStatus(user, ip) == GetStatusCall(user, ip) /\ UNCHANGED <<reqs, race, probe, processEnv, unswept, proc>>

cleanup == CleanupCall /\ UNCHANGED <<reqs, race, probe, processEnv, unswept, proc>>

reset(user, ip) == ResetCall(user, ip) /\ UNCHANGED <<reqs, race, probe, processEnv, unswept, proc>>

Tick == now < MaxTime /\ Advance

Next ==
    \/ \E c \in Clients : checkLimit(c[1], c[2])
    \/ \E c \in Clients : getStatus(c[1], c[2])
    \/ \E c \in Clients : reset(c[1], c[2])
    \/ cleanup
    \/ Tick

Spec == Init /\ [][Next]_vars

(***************************************************************************)
(* The HTTP routes around the engine: POST /api/chat and GET /api/status   *)
(***************************************************************************)
KeyOf(r) == getKey(r.user, r.ip)

\* The requests waiting for the rate-limit middleware under key k, but s.
Rivals(s, k) == {t \in Slots \ {s} : reqs[t].stage = "queued" /\ KeyOf(reqs[t]) = k}

\* The observer of two calls in flight together when one slot is left: the
\* first to run opens the pair, the rival that runs next in the window closes it.
RaceAfter(s, res) ==
    LET r == reqs[s]
        k == KeyOf(r)
        L == getLimit(r.user)
        inWindow == Found(storage, k, now) = "active"
    IN IF /\ race[k].open /\ ~race[k].closed /\ s \in race[k].rivals
          /\ inWindow /\ storage[k].windowStart = race[k].start /\ L = race[k].limit
       THEN [race[k] EXCEPT !.closed = TRUE, !.second = res.allowed,
                            !.count = EntryOf(storage', k).count]
       ELSE IF /\ inWindow /\ storage[k].count = L - 1 /\ Rivals(s, k) # {}
               /\ \A t \in Rivals(s, k) : getLimit(reqs[t].user) = L
            THEN [open |-> TRUE, closed |-> FALSE, start |-> storage[k].windowStart,
                  limit |-> L, rivals |-> Rivals(s, k), first |-> res.allowed,
                  second |-> FALSE, count |-> 0]
            ELSE NoRace

\* Calls next() whatever the result.
LimiterStatusAlwaysNext(res) == 0

\* The status the rate-limit middleware responds with; 0 when it calls next().
LimiterStatus(res) == IF ~res.allowed THEN 429 ELSE 0

\* The request after the rate-limit middleware has run with result res.
AfterLimiter(r, res) ==
    [r EXCEPT !.checked = TRUE, !.allowed = res.allowed, !.remaining = res.remaining,
              !.numeric = res.numeric, !.resetTime = res.resetTime,
              !.status = LimiterStatus(res),
              !.stage = IF LimiterStatus(res) = 0 THEN "handler" ELSE "done"]

\* A POST /api/chat request has passed authenticateToken and validateMessage.
Arrive(s, c) ==
    /\ reqs[s].stage = "idle"
    /\ reqs' = [reqs EXCEPT ![s] = [NoRequest EXCEPT !.stage = "queued", !.user = c[1],
                                                     !.ip = c[2]]]
    /\ UNCHANGED <<storage, limits, windowSize, now, obs, last, race, probe, processEnv, unswept, proc>>

\* createRateLimitMiddleware: checkLimit, then 429 or next() with req.rateLimit.
RateLimitMiddleware(s) ==
    LET r == reqs[s]
        res == CheckLimitResult(storage, r.user, r.ip, now)
    IN /\ r.stage = "queued"
       /\ CheckLimitCall(r.user, r.ip)
       /\ reqs' = [reqs EXCEPT ![s] = AfterLimiter(r, res)]
       /\ race' = [race EXCEPT ![KeyOf(r)] = RaceAfter(s, res)]
       /\ UNCHANGED <<probe, processEnv, unswept, proc>>

\* The chat handler's awaited AI call has returned; the response is built.
ChatHandler(s) ==
    /\ reqs[s].stage = "handler"
    /\ reqs' = [reqs EXCEPT ![s].stage = "done", ![s].status = 200]
    /\ UNCHANGED <<storage, limits, windowSize, now, obs, last, race, probe, processEnv, unswept, proc>>

\* The response has been sent.
Respond(s) ==
    /\ reqs[s].stage = "done"
    /\ reqs' = [reqs EXCEPT ![s] = NoRequest]
    /\ UNCHANGED <<storage, limits, windowSize, now, obs, last, race, probe, processEnv, unswept, proc>>

\* The body GET /api/status builds from the result of getStatus.
StatusResponse(res) ==
    [remaining_requests |-> res.remaining, total_requests |-> res.total,
     user_type |-> res.userType, reset_time |-> res.resetTime]

\* The status route asks an engine instance of its own, which no chat
\* request has ever reached.
StatusRouteOwnInstance(c) ==
    /\ last' = Call("getStatus", c[1], c[2], GetStatusResult(<<>>, c[1], c[2], now))
    /\ UNCHANGED <<storage, limits, windowSize, now, obs, reqs, race, probe, processEnv,
                   unswept, proc>>

\* GET /api/status
StatusRoute(c) == GetStatusCall(c[1], c[2]) /\ UNCHANGED <<reqs, race, probe, processEnv, unswept, proc>>

\* The interval timer of the constructor fires.
CleanupTimer == proc.timer # "cleared" /\ CleanupCall /\ UNCHANGED <<reqs, race, probe, processEnv, unswept, proc>>

NextHttp ==
    \/ \E s \in Slots, c \in HttpClients : Arrive(s, c)
    \/ \E s \in Slots : RateLimitMiddleware(s)
    \/ \E s \in Slots : ChatHandler(s)
    \/ \E s \in Slots : Respond(s)
    \/ \E c \in HttpClients : StatusRoute(c)
    \/ CleanupTimer
    \/ Tick

SpecHttp == Init /\ [][NextHttp]_vars

(***************************************************************************)
(* POST /api/chat from the request's headers and body on                   *)
(***************************************************************************)
\* The Authorization header: one without a token (absent, or nothing after
\* the first blank), a token that jwt.verify rejects, or a token that
\* verifies to a payload.
NoHeader == [token |-> "none", user |-> NoUser]
BadToken == [token |-> "invalid", user |-> NoUser]
TokenOf(user) == [token |-> "valid", user |-> user]

Headers == {NoHeader, BadToken} \cup {TokenOf(u) : u \in PayloadUsers}

\* authenticateToken: the status it responds with (0: next()) and req.user.
Authenticate(header) ==
    IF header.token = "none" THEN [status |-> 0, user |-> Guest]
    ELSE IF header.token = "invalid" THEN [status |-> 403, user |-> NoUser]
    ELSE [status |-> 0, user |-> header.user]

\* message.length > 1000
MessageLimit == 1000

\* req.body.message by its type, its length and its length after trim().
NoMessage == [type |-> "undefined", length |-> 0, trimmed |-> 0]
Text(length, trimmed) == [type |-> "string", length |-> length, trimmed |-> trimmed]
NumberMessage == [type |-> "number", length |-> 0, trimmed |-> 0]

Messages ==
    {NoMessage, Text(0, 0), Text(3, 0), NumberMessage, Text(5, 5),
     Text(MessageLimit, MessageLimit), Text(MessageLimit + 1, MessageLimit + 1)}

\* validateMessage: the status it responds with (0: next()).
MessageStatus(message) ==
    IF \/ message.type = "undefined"
       \/ (message.type = "string" /\ message.length = 0)
       \/ message.type # "string"
       \/ message.trimmed = 0
    THEN 400
    ELSE IF message.length > MessageLimit THEN 400 ELSE 0

\* The rate limiter runs ahead of the validation of the message.
PipelineLimiterFirst == <<"authenticateToken", "rateLimitMiddleware", "validateMessage">>

\* router.post('/chat', authenticateToken, validateMessage, rateLimitMiddleware, ...)
Pipeline == <<"authenticateToken", "validateMessage", "rateLimitMiddleware">>

\* The status middleware i of the pipeline responds with; 0 when it calls next().
StatusAt(i, header, message, res) ==
    CASE Pipeline[i] = "authenticateToken" -> Authenticate(header).status
      [] Pipeline[i] = "validateMessage" -> MessageStatus(message)
      [] Pipeline[i] = "rateLimitMiddleware" -> LimiterStatus(res)

\* The first middleware that responds; Len(Pipeline) + 1 when all call next().
FirstToRespond(header, message, res) ==
    LET stopped == {i \in 1..Len(Pipeline) : StatusAt(i, header, message, res) # 0}
    IN IF stopped = {} THEN Len(Pipeline) + 1
       ELSE CHOOSE i \in stopped : \A j \in stopped : i <= j

\* The rate-limit middleware is reached: every middleware ahead of it calls next().
LimiterRuns(header, message, res) ==
    \E i \in 1..Len(Pipeline) :
        /\ Pipeline[i] = "rateLimitMiddleware"
        /\ i <= FirstToRespond(header, message, res)

\* A POST /api/chat request runs through the middleware of the route, each
\* called from the next() of the one before, up to a response or to the
\* first await of the chat handler.
PostChat(s, header, message, ip) ==
    LET user == Authenticate(header).user
        res == CheckLimitResult(storage, user, ip, now)
        first == FirstToRespond(header, message, res)
        runs == LimiterRuns(header, message, res)
        status == IF first > Len(Pipeline) THEN 0 ELSE StatusAt(first, header, message, res)
        arrived == [NoRequest EXCEPT !.user = user, !.ip = ip]
        limited == IF runs THEN AfterLimiter(arrived, res) ELSE arrived
    IN /\ reqs[s].stage = "idle"
       /\ IF runs THEN CheckLimitCall(user, ip)
          ELSE UNCHANGED <<storage, limits, windowSize, now, obs, last>>
       /\ reqs' = [reqs EXCEPT ![s] =
                     [limited EXCEPT !.status = status,
                                     !.stage = IF status = 0 THEN "handler" ELSE "done"]]
       /\ UNCHANGED <<race, probe, processEnv, unswept, proc>>

NextChat ==
    \/ \E s \in Slots, header \in Headers, message \in Messages :
          PostChat(s, header, message, "a")
    \/ \E s \in Slots : ChatHandler(s)
    \/ \E s \in Slots : Respond(s)

SpecChat == Init /\ [][NextChat]_vars

(***************************************************************************)
(* Properties of the engine                                                *)
(***************************************************************************)
LastKey == getKey(last.user, last.ip)

IsCheck == last.op = "checkLimit"

\* The callers getKey maps to key k.
CallersOf(k) == {c \in Clients : getKey(c[1], c[2]) = k}

\* C3 as stated: in every reachable state, for every stored key k and every
\* (identity, address) pair getKey maps to k, count of k <= getLimit(identity).
C3_CountWithinEveryCallersLimit ==
    \A k \in DOMAIN storage : \A c \in CallersOf(k) :
        storage[k].count <= getLimit(c[1])

\* C3 amended: for every stored key k, count of k is <= getLimit(identity) for
\* at least one (identity, address) pair getKey maps to k, that is, it never
\* exceeds the largest limit among the callers that share k.
C3_CountWithinLargestCallersLimit ==
    \A k \in DOMAIN storage : \E c \in CallersOf(k) :
        storage[k].count <= getLimit(c[1])

\* C3 witness: a key shared by callers of two limits is filled to the larger.
C3_Witness ==
    \E k \in DOMAIN storage : \E c, d \in CallersOf(k) :
        /\ getLimit(c[1]) < getLimit(d[1])
        /\ storage[k].count = getLimit(d[1])
        /\ IsCheck /\ LastKey = k

\* C5: for a key whose callers of the window all have limit L >= 1, the N-th
\* admitted checkLimit call of the window returns remaining = L - N with
\* 1 <= N <= L, and a denied call comes after L admissions and returns
\* remaining = 0 (so the (L+1)-th call is denied).
C5_RemainingCountsDown ==
    (IsCheck /\ last.res.total >= 1 /\ obs[LastKey].limits = {last.res.total}) =>
        LET L == last.res.total
            N == obs[LastKey].admitted
        IN IF last.res.allowed
           THEN N >= 1 /\ N <= L /\ last.res.remaining = L - N
           ELSE N = L /\ last.res.remaining = 0

\* C5 witness: the (L+1)-th call of a window with L = 2 has been denied.
C5_Witness ==
    /\ IsCheck /\ ~last.res.allowed /\ last.res.total = 2
    /\ obs[LastKey].limits = {2} /\ obs[LastKey].admitted = 2
    /\ last.res.remaining = 0

\* Two callers the claim calls distinct subjects: two numeric non-zero user ids
\* of one non-guest tier, or two guests (or absent identities) at two addresses.
OtherSubject(c, d) ==
    \/ /\ c[1].present /\ d[1].present
       /\ c[1].type = d[1].type /\ c[1].type \in {"free", "premium"}
       /\ c[1].id.kind = "num" /\ d[1].id.kind = "num"
       /\ c[1].id.n # 0 /\ d[1].id.n # 0 /\ c[1].id.n # d[1].id.n
    \/ /\ UserType(c[1]) = "guest" /\ UserType(d[1]) = "guest"
       /\ c[2] # d[2]

\* C7: a checkLimit call leaves the entry (count, windowStart, presence) of
\* every key other than its own unchanged, and the status reported to every
\* other subject (another user id of the tier, another guest address).
C7_OtherKeysUntouched ==
    [][(last'.op = "checkLimit" /\ now' = now) =>
          /\ \A k \in (DOMAIN storage \cup DOMAIN storage') \ {LastKey'} :
                /\ k \in DOMAIN storage /\ k \in DOMAIN storage'
                /\ storage'[k] = storage[k]
          /\ \A d \in Clients :
                OtherSubject(<<last'.user, last'.ip>>, d) =>
                    /\ EntryOf(storage', getKey(d[1], d[2]))
                         = EntryOf(storage, getKey(d[1], d[2]))
                    /\ (getKey(d[1], d[2]) \in DOMAIN storage')
                         = (getKey(d[1], d[2]) \in DOMAIN storage)
                    /\ GetStatusResult(storage', d[1], d[2], now)
                         = GetStatusResult(storage, d[1], d[2], now)]_vars

\* C7 witness: one user id has been exhausted (a denied call) while another
\* user id of the tier has an unexpired window with quota left.
C7_Witness ==
    /\ IsCheck /\ ~last.res.allowed /\ last.at = now
    /\ \E d \in Clients :
          /\ OtherSubject(<<last.user, last.ip>>, d)
          /\ d[1].present
          /\ Found(storage, getKey(d[1], d[2]), now) = "active"
          /\ GetStatusResult(storage, d[1], d[2], now).remaining >= 1

\* C9: a checkLimit call with limit L >= 1 that finds its key's window expired
\* (now - windowStart >= windowSize) is admitted with remaining = L - 1,
\* whatever the old count, and leaves the entry {count: 1, windowStart: now}.
C9_ExpiredWindowStartsAfresh ==
    (IsCheck /\ last.found = "expired" /\ last.res.total >= 1) =>
        /\ last.res.allowed
        /\ last.res.remaining = last.res.total - 1
        /\ last.res.resetTime = last.at + windowSize
        /\ LastKey \in DOMAIN storage
        /\ storage[LastKey] = [count |-> 1, windowStart |-> last.at]

\* C9 witness: the expired window the call found was saturated.
C9_Witness ==
    /\ IsCheck /\ last.found = "expired"
    /\ last.before.count = last.res.total
    /\ last.res.allowed

\* C10: a getStatus call, for any identity and address and at any time, leaves
\* the store as it was (no entry created, none changed), so every later
\* checkLimit call finds what it would have found without it.
C10_GetStatusWritesNothing ==
    [][(last'.op = "getStatus" /\ now' = now) =>
          /\ storage' = storage
          /\ \A c \in Clients :
                /\ CheckLimitResult(storage', c[1], c[2], now)
                     = CheckLimitResult(storage, c[1], c[2], now)
                /\ CheckLimitStorage(storage', c[1], c[2], now)
                     = CheckLimitStorage(storage, c[1], c[2], now)]_vars

\* C10 witness: getStatus has reported on an expired key, which is still
\* stored, and on an absent key, which is still absent.
C10_Witness ==
    /\ last.op = "getStatus"
    /\ \/ last.found = "expired" /\ LastKey \in DOMAIN storage
       \/ last.found = "absent" /\ LastKey \notin DOMAIN storage
    /\ storage # <<>>

(***************************************************************************)
(* Properties of concurrent requests                                       *)
(***************************************************************************)
\* C1: for a key whose callers of the window all resolve to one limit L >= 1,
\* under any interleaving of the in-flight requests' checkLimit calls with
\* getStatus calls and cleanup sweeps (no route calls reset), at most L calls
\* are admitted between the creation of the window and its expiry.
C1_AtMostLimitAdmittedPerWindow ==
    \A k \in AllKeys : \A L \in {getLimit(c[1]) : c \in HttpClients} :
        (obs[k].active /\ obs[k].limits = {L} /\ L >= 1) => obs[k].admitted <= L

\* C1 witness: a window is full while a further request for its key waits and
\* an admitted one is still being handled.
C1_Witness ==
    \E s, t \in Slots :
        /\ s # t /\ KeyOf(reqs[s]) = KeyOf(reqs[t])
        /\ reqs[s].stage = "handler" /\ reqs[t].stage = "queued"
        /\ obs[KeyOf(reqs[s])].admitted = 2
        /\ obs[KeyOf(reqs[s])].limits = {2}

\* C2: when two requests for a key are in flight together while the key's
\* unexpired window holds count = limit - 1, and their checkLimit calls run
\* one after the other inside that window, exactly one of the two is admitted
\* and the stored count ends at limit.
C2_LastSlotAdmitsExactlyOne ==
    \A k \in AllKeys :
        race[k].closed =>
            /\ race[k].first # race[k].second
            /\ race[k].count = race[k].limit

\* C2 witness: such a pair has run.
C2_Witness ==
    \E k \in AllKeys : race[k].closed /\ race[k].limit = 2 /\ race[k].first

\* C4: in every reachable state the stored count of a key equals the number of
\* checkLimit calls for the key admitted since the entry's windowStart, the
\* entry being the one the first of these calls created.
C4_CountIsAdmittedCalls ==
    \A k \in DOMAIN storage :
        /\ obs[k].active
        /\ obs[k].start = storage[k].windowStart
        /\ obs[k].admitted = storage[k].count

\* C4 witness: two requests admitted under one key are in their handlers at
\* the same time and the key's count is 2.
C4_Witness ==
    \E s, t \in Slots :
        /\ s # t /\ KeyOf(reqs[s]) = KeyOf(reqs[t])
        /\ reqs[s].stage = "handler" /\ reqs[t].stage = "handler"
        /\ KeyOf(reqs[s]) \in DOMAIN storage
        /\ storage[KeyOf(reqs[s])].count = 2

(***************************************************************************)
(* The engine under the default limit table                                *)
(***************************************************************************)
InitDefault == Construct({DefaultEnv}) /\ probe = NoProbe

TickDefault == now < MaxTimeDefault /\ Advance

NextDefault ==
    \/ \E c \in DefaultClients : checkLimit(c[1], c[2])
    \/ TickDefault

SpecDefault == InitDefault /\ [][NextDefault]_vars

\* C6: with the default table, within one window of a key used by one tier:
\* a guest call is denied only after 3 admissions and never admitted as a 4th,
\* a free call is denied only after 10 admissions and never admitted as an
\* 11th, and a premium call among the first 50 is never denied (a denial comes
\* only after 50 admissions).
C6_DefaultTableBoundaries ==
    IsCheck =>
        LET N == obs[LastKey].admitted
            L == CASE last.res.userType = "guest" -> 3
                   [] last.res.userType = "free" -> 10
                   [] last.res.userType = "premium" -> 50
        IN /\ last.res.total = L
           /\ obs[LastKey].limits = {L}
           /\ IF last.res.allowed THEN N >= 1 /\ N <= L ELSE N = L

\* C6 witness: the 50th premium call of a window has been admitted, after the
\* 4th guest call and the 11th free call were denied.
C6_Witness ==
    /\ IsCheck /\ last.res.userType = "premium" /\ last.res.allowed
    /\ obs[LastKey].admitted = 50
    /\ obs["ip:a"].admitted = 3 /\ obs["user:1"].admitted = 10

(***************************************************************************)
(* Key derivation on its own                                               *)
(***************************************************************************)
InitKey ==
    /\ Construct(Envs)
    /\ probe \in {[NoProbe EXCEPT !.u1 = u1, !.ip1 = ip1, !.u2 = u2, !.ip2 = ip2] :
                    u1 \in Users, ip1 \in Ips, u2 \in Users, ip2 \in Ips}

DeriveKeys ==
    /\ ~probe.done
    /\ probe' = [probe EXCEPT !.done = TRUE,
                              !.k1 = getKey(probe.u1, probe.ip1),
                              !.k2 = getKey(probe.u2, probe.ip2)]
    /\ UNCHANGED <<storage, limits, windowSize, now, obs, last, reqs, race, processEnv,
                 unswept, proc>>

NextKey == DeriveKeys

SpecKey == InitKey /\ [][NextKey]_vars

\* An identity of a non-guest tier that carries an id.
NonGuestWithId(u) == u.present /\ u.type # "guest" /\ u.id.kind # "null"

\* A guest or an absent identity.
GuestOrAbsent(u) == ~u.present \/ u.type = "guest"

\* An identity getKey keys by user id: non-guest type and a truthy id.
UserKeyed(u) == u.present /\ u.type # "guest" /\ Truthy(u.id)

\* C8 as stated: two (identity, address) pairs derive one key only if they are
\* the same non-guest user id, or are both guest or absent identities with one
\* origin address.
C8_NoTwoSubjectsCollide ==
    (probe.done /\ probe.k1 = probe.k2) =>
        \/ /\ NonGuestWithId(probe.u1) /\ NonGuestWithId(probe.u2)
           /\ probe.u1.id = probe.u2.id
        \/ /\ GuestOrAbsent(probe.u1) /\ GuestOrAbsent(probe.u2)
           /\ probe.ip1 = probe.ip2

\* C8 amended: two pairs derive one key only if both are non-guest identities
\* with truthy ids of one rendering, or both are keyed by address (absent,
\* guest, or non-guest with a null, 0 or empty id) at one origin address; an
\* identity of a non-guest tier shares a key with a guest only when its id is
\* null, 0 or empty and the addresses are the same.
C8_CollideOnlyOnSameIdTextOrAddress ==
    (probe.done /\ probe.k1 = probe.k2) =>
        /\ \/ /\ UserKeyed(probe.u1) /\ UserKeyed(probe.u2)
              /\ IdText(probe.u1.id) = IdText(probe.u2.id)
           \/ /\ ~UserKeyed(probe.u1) /\ ~UserKeyed(probe.u2)
              /\ probe.ip1 = probe.ip2
        /\ (~GuestOrAbsent(probe.u1) /\ GuestOrAbsent(probe.u2)) =>
              (~Truthy(probe.u1.id) /\ probe.ip1 = probe.ip2)

\* C8 witness: a free identity without an id has derived the key of the guest
\* at its address.
C8_Witness ==
    /\ probe.done /\ probe.k1 = probe.k2
    /\ probe.u1 = FreeNoId /\ probe.u2 = Guest

(***************************************************************************)
(* Status reports, reset and the sweep                                     *)
(***************************************************************************)
IsStatus == last.op = "getStatus"

\* The entry the last call found was stored and its window had not run out.
LastFoundUnexpired ==
    /\ last.found # "absent"
    /\ last.at - last.before.windowStart < windowSize

\* C11: getStatus on a key that is absent or whose window has run out reports
\* remaining = limit and resetTime = now + windowSize; on a key with a running
\* window it reports remaining = max(0, limit - count) and
\* resetTime = windowStart + windowSize.
C11_StatusReportsWindow ==
    IsStatus =>
        /\ last.res.total = getLimit(last.user)
        /\ IF LastFoundUnexpired
           THEN /\ last.res.remaining = Max(0, last.res.total - last.before.count)
                /\ last.res.resetTime = last.before.windowStart + windowSize
           ELSE /\ last.res.remaining = last.res.total
                /\ last.res.resetTime = last.at + windowSize

\* getStatus has reported on a stored window that had run out with calls in it.
C11_Witness ==
    /\ IsStatus
    /\ last.found # "absent"
    /\ last.before.count >= 1
    /\ last.at - last.before.windowStart >= windowSize
    /\ last.res.remaining = last.res.total

\* getStatus has reported on a running window that holds more calls than the
\* caller's limit.
C11_WitnessClamped ==
    /\ IsStatus
    /\ LastFoundUnexpired
    /\ last.before.count > last.res.total
    /\ last.res.remaining = 0

\* C12: reset(user, ip) removes the entry of the derived key and nothing else:
\* on an absent key it leaves the store as it was, a second reset changes
\* nothing more, and right after it getStatus reports remaining = limit and
\* checkLimit answers and stores what it does for a key never seen (admitted
\* with remaining = limit - 1 when limit >= 1).
C12_ResetForgetsKey ==
    [][(last'.op = "reset" /\ now' = now) =>
         LET user == last'.user
             ip == last'.ip
             key == getKey(user, ip)
             never == <<>>
         IN /\ key \notin DOMAIN storage'
            /\ DOMAIN storage' = DOMAIN storage \ {key}
            /\ \A k \in DOMAIN storage' : storage'[k] = storage[k]
            /\ key \notin DOMAIN storage => storage' = storage
            /\ ResetStorage(storage', user, ip) = storage'
            /\ GetStatusResult(storage', user, ip, now').remaining = getLimit(user)
            /\ CheckLimitResult(storage', user, ip, now')
                   = CheckLimitResult(never, user, ip, now')
            /\ CheckLimitStorage(storage', user, ip, now')[key]
                   = CheckLimitStorage(never, user, ip, now')[key]
            /\ getLimit(user) >= 1 =>
                  /\ CheckLimitResult(storage', user, ip, now').allowed
                  /\ CheckLimitResult(storage', user, ip, now').remaining
                         = getLimit(user) - 1]_vars

\* A reset has removed a running window with calls in it and left another
\* key's entry in the store.
C12_Witness ==
    /\ last.op = "reset"
    /\ last.found = "active"
    /\ last.before.count >= 1
    /\ getKey(last.user, last.ip) \notin DOMAIN storage
    /\ storage # <<>>

\* A reset has been made on a key that was not stored.
C12_WitnessAbsent ==
    /\ last.op = "reset"
    /\ last.found = "absent"
    /\ storage # <<>>

IsCleanup == last.op = "cleanup"

\* The keys whose window, as the observer saw it open, has run out at time t.
SeenRunOut(t) == {k \in AllKeys : obs[k].admitted >= 1 /\ WindowOver(obs[k], t)}

\* C13: right after a cleanup sweep at time now, before the clock moves, the
\* store (which getDebugInfo lists) holds no key with
\* now - windowStart >= windowSize.
C13_SweepLeavesNoExpiredEntry ==
    (IsCleanup /\ last.at = now) =>
        /\ \A k \in DOMAIN storage : now - storage[k].windowStart < windowSize
        /\ \A k \in DOMAIN getDebugInfo(storage, now) :
              /\ now - getDebugInfo(storage, now)[k].windowStart < windowSize
              /\ getDebugInfo(storage, now)[k].timeRemaining > 0

\* A sweep has just run, a key whose window had run out is gone and a key
\* with a running window is still stored.
C13_Witness ==
    /\ IsCleanup
    /\ last.at = now
    /\ \E k \in SeenRunOut(now) : k \notin DOMAIN storage
    /\ storage # <<>>

\* C14: a cleanup sweep neither deletes nor alters an entry whose window has
\* not run out, under every interleaving with the calls of requests in
\* flight: the entry and the admissions counted in it are the same after the
\* sweep, so a window that checkLimit has just opened for a key is never
\* swept.
C14_SweepSparesRunningWindows ==
    [][(last'.op = "cleanup" /\ now' = now) =>
         \A k \in DOMAIN storage :
            now - storage[k].windowStart < windowSize =>
               /\ k \in DOMAIN storage'
               /\ storage'[k] = storage[k]
               /\ obs'[k].admitted = storage'[k].count]_vars

\* A sweep has just run while an admitted request is still in its handler:
\* the window opened for that request after time 0 is stored with its
\* admission, and another key's run-out window is gone.
C14_Witness ==
    /\ IsCleanup
    /\ last.at = now
    /\ \E s \in Slots :
          /\ reqs[s].stage = "handler"
          /\ KeyOf(reqs[s]) \in DOMAIN storage
          /\ storage[KeyOf(reqs[s])].windowStart = now
          /\ now > 0
          /\ storage[KeyOf(reqs[s])].count >= 1
    /\ \E k \in SeenRunOut(now) : k \notin DOMAIN storage

(***************************************************************************)
(* The engine beside a run of the same calls with no sweep in between      *)
(***************************************************************************)
checkLimitBoth(user, ip) ==
    /\ CheckLimitCall(user, ip)
    /\ unswept' = CheckLimitStorage(unswept, user, ip, now)
    /\ UNCHANGED <<reqs, race, probe, processEnv, proc>>

getStatusBoth(user, ip) ==
    /\ GetStatusCall(user, ip)
    /\ unswept' = GetStatusStorage(unswept, user, ip, now)
    /\ UNCHANGED <<reqs, race, probe, processEnv, proc>>

resetBoth(user, ip) ==
    /\ ResetCall(user, ip)
    /\ unswept' = ResetStorage(unswept, user, ip)
    /\ UNCHANGED <<reqs, race, probe, processEnv, proc>>

\* The sweep runs in the engine only.
cleanupInserted == cleanup

NextUnswept ==
    \/ \E c \in Clients : checkLimitBoth(c[1], c[2])
    \/ \E c \in Clients : getStatusBoth(c[1], c[2])
    \/ \E c \in Clients : resetBoth(c[1], c[2])
    \/ cleanupInserted
    \/ Tick

SpecUnswept == Init /\ [][NextUnswept]_vars

\* C15: every result checkLimit or getStatus returns is the result the same
\* call returns in the run of the same calls, at the same times, with no
\* cleanup sweep in between.
C15_ResultsIndependentOfSweeps ==
    [][(now' = now /\ last'.op \in {"checkLimit", "getStatus"}) =>
         last'.res = IF last'.op = "checkLimit"
                     THEN CheckLimitResult(unswept, last'.user, last'.ip, now)
                     ELSE GetStatusResult(unswept, last'.user, last'.ip, now)]_vars

\* A call has just answered for a key that a sweep removed from the engine's
\* store and that the sweep-less run still holds, while the two stores differ.
C15_Witness ==
    /\ last.op \in {"checkLimit", "getStatus"}
    /\ last.at = now
    /\ last.found = "absent"
    /\ last.res.total >= 1
    /\ LastKey \in DOMAIN unswept
    /\ unswept # storage

(***************************************************************************)
(* The engine with its sweep timer firing for ever                         *)
(***************************************************************************)
Times == 0..MaxTime

NextSweep ==
    \/ \E c \in HttpClients : checkLimit(c[1], c[2])
    \/ \E c \in HttpClients : getStatus(c[1], c[2])
    \/ CleanupTimer
    \/ Tick

\* The interval timer of the constructor fires again and again: a sweep that
\* has something to delete is not put off for ever.
SpecSweep == Init /\ [][NextSweep]_vars /\ WF_vars(CleanupTimer)

\* Key k is stored with the window opened at time s, and that window has run out.
StoredRunOut(k, s) ==
    /\ k \in DOMAIN storage
    /\ storage[k].windowStart = s
    /\ now - s >= windowSize

\* C16: every stored entry whose window has run out is eventually gone from
\* the store (swept, or replaced by the window of a later call), also when
\* its key is never used again, as long as the sweep timer keeps firing.
C16_RunOutEntryEventuallySwept ==
    \A k \in AllKeys : \A s \in Times :
        StoredRunOut(k, s) ~> ~StoredRunOut(k, s)

\* The sweep has emptied the store: every window seen has run out and its
\* key, not used since, is gone.
C16_Witness ==
    /\ IsCleanup
    /\ SeenRunOut(now) # {}
    /\ \A k \in AllKeys : obs[k].active => k \in SeenRunOut(now)
    /\ storage = <<>>

(***************************************************************************)
(* Key and limit of arbitrary identities                                   *)
(***************************************************************************)
\* C17: getKey returns "user:<id>" exactly when the identity is present, its
\* tier is not guest and its id is not null (whatever the id's value, 0
\* included), and "ip:<address>" otherwise.
C17_UserKeyIffIdNotNull ==
    probe.done =>
        IF probe.u1.present /\ probe.u1.type # "guest" /\ probe.u1.id # NullId
        THEN probe.k1 = "user:" \o IdText(probe.u1.id)
        ELSE probe.k1 = "ip:" \o probe.ip1

\* Every identity of Users calls the engine from address "a".
AnyClients == {<<u, "a">> : u \in Users}

NextAny ==
    \/ \E c \in AnyClients : checkLimit(c[1], c[2])
    \/ \E c \in AnyClients : getStatus(c[1], c[2])

SpecAny == Init /\ [][NextAny]_vars

\* The keys whose entry a step has written.
Written == {k \in DOMAIN storage' : k \notin DOMAIN storage \/ storage'[k] # storage[k]}

\* What getStatus reports as remaining for limit total when it reads key k.
RemainingUnder(k, total) ==
    IF Found(storage, k, now) = "active" THEN Max(0, total - storage[k].count) ELSE total

\* C18: a checkLimit or getStatus call whose result reports userType "guest"
\* is counted under "ip:<address>" and never under a "user:" key: checkLimit
\* writes no other entry than that of "ip:<address>", and getStatus reports
\* the window stored under "ip:<address>".
C18_GuestResultsCountedByAddress ==
    [][(now' = now /\ last'.res.userType = "guest") =>
         /\ last'.op = "checkLimit" =>
               /\ Written \subseteq {"ip:" \o last'.ip}
               /\ ("ip:" \o last'.ip) \in DOMAIN storage'
         /\ last'.op = "getStatus" =>
               last'.res.remaining = RemainingUnder("ip:" \o last'.ip, last'.res.total)]_vars

LimitUsers == Users \cup {Premium2, Constructor3, ToString3}

\* Environments that set some, all or none of the limits; 0 and a negative
\* number are among the values set.
LimitEnvs ==
    Envs \cup
    {DefaultEnv,
     [DefaultEnv EXCEPT !.GUEST_LIMIT = Num(0), !.FREE_LIMIT = Num(0)],
     [DefaultEnv EXCEPT !.FREE_LIMIT = Num(-1)],
     [DefaultEnv EXCEPT !.PREMIUM_LIMIT = Num(4)]}

InitLimit ==
    /\ Construct(LimitEnvs)
    /\ probe \in {[NoProbe EXCEPT !.u1 = u] : u \in LimitUsers}

ApplyGetLimit ==
    /\ ~probe.done
    /\ probe' = [probe EXCEPT !.done = TRUE, !.lim = getLimitValue(probe.u1)]
    /\ UNCHANGED <<storage, limits, windowSize, now, obs, last, reqs, race, processEnv,
                   unswept, proc>>

NextLimit == ApplyGetLimit

SpecLimit == InitLimit /\ [][NextLimit]_vars

\* C19: getLimit returns the configured limit of the identity's tier when the
\* tier is a key of the limit table, and the configured guest limit when the
\* identity is absent, has no tier, or has a tier that is not in the table.
C19_TierLimitOrGuestLimit ==
    probe.done =>
        IF probe.u1.present /\ probe.u1.type \in {"guest", "free", "premium"}
        THEN probe.lim = Number(limits[probe.u1.type])
        ELSE probe.lim = Number(limits.guest)

(***************************************************************************)
(* The engine configured with limits of 0                                  *)
(***************************************************************************)
\* GUEST_LIMIT=0 and FREE_LIMIT=0 are set in the environment.
ZeroEnv == [DefaultEnv EXCEPT !.GUEST_LIMIT = Num(0), !.FREE_LIMIT = Num(0)]

InitZero == Construct({ZeroEnv}) /\ probe = NoProbe

NextZero ==
    \/ \E c \in HttpClients : checkLimit(c[1], c[2])
    \/ TickDefault

SpecZero == InitZero /\ [][NextZero]_vars

\* The value the environment configures as the limit of a tier.
Configured(tier) ==
    CASE tier = "guest" -> processEnv.GUEST_LIMIT
      [] tier = "free" -> processEnv.FREE_LIMIT
      [] tier = "premium" -> processEnv.PREMIUM_LIMIT
      [] OTHER -> NaN

\* C20: when the configured limit of a tier is 0, every checkLimit call for
\* that tier is denied: allowed = false and total = 0.
C20_ZeroLimitDeniesEveryCall ==
    (IsCheck /\ Configured(last.res.userType) = Num(0)) =>
        /\ ~last.res.allowed
        /\ last.res.total = 0

(***************************************************************************)
(* The engine configured with a negative or non-numeric limit              *)
(***************************************************************************)
\* GUEST_LIMIT is not a number (parseInt gives NaN) and FREE_LIMIT=-1.
NegativeEnv == [DefaultEnv EXCEPT !.GUEST_LIMIT = NaN, !.FREE_LIMIT = Num(-1)]

InitNegative == Construct({NegativeEnv}) /\ probe = NoProbe

NextNegative ==
    \/ \E c \in HttpClients : checkLimit(c[1], c[2])
    \/ \E c \in HttpClients : getStatus(c[1], c[2])
    \/ TickDefault

SpecNegative == InitNegative /\ [][NextNegative]_vars

IsResult == last.op \in {"checkLimit", "getStatus"}

\* C21: a negative or non-numeric configured limit is rejected or clamped at
\* construction: the limit table of a constructed engine holds no negative
\* limit and no checkLimit or getStatus result reports a negative total.
C21_NoNegativeLimit ==
    /\ \A tier \in DOMAIN limits : limits[tier] >= 0
    /\ IsResult => last.res.total >= 0

\* C22: every checkLimit and getStatus result has 0 <= remaining <= total,
\* and every admitted checkLimit result has remaining <= total - 1.
C22_RemainingWithinTotal ==
    IsResult =>
        /\ 0 <= last.res.remaining
        /\ last.res.remaining <= last.res.total
        /\ (IsCheck /\ last.res.allowed) => last.res.remaining <= last.res.total - 1

(***************************************************************************)
(* The chat route: rejections, denials and the order of the middleware     *)
(***************************************************************************)
\* C23: every denied checkLimit result reports remaining = 0, and the
\* middleware answers every denied result with HTTP 429 and
\* remaining_requests = 0.
C23_DeniedReportsZeroRemaining ==
    /\ (IsCheck /\ ~last.res.allowed) => (last.res.numeric /\ last.res.remaining = 0)
    /\ \A s \in Slots :
          (reqs[s].checked /\ ~reqs[s].allowed) =>
             /\ reqs[s].stage = "done"
             /\ reqs[s].status = 429
             /\ reqs[s].numeric
             /\ reqs[s].remaining = 0

\* C24: a POST /api/chat request that is answered 403 (invalid token) or 400
\* (missing, empty, blank, non-string or over-long message) never reaches
\* checkLimit: the step that rejects it leaves the store as it was.
C24_RejectedRequestsConsumeNothing ==
    [][\A s \in Slots :
         (reqs[s].stage = "idle" /\ reqs'[s].status \in {400, 403}) =>
            /\ storage' = storage
            /\ ~reqs'[s].checked]_vars

\* A request of user 1 has been answered 400 and another request 403; an
\* earlier guest request has been counted, and user 1 has no entry.
C24_Witness ==
    \E s \in Slots, t \in Slots :
        /\ reqs[s].status = 400
        /\ reqs[s].user = Free1
        /\ reqs[t].status = 403
        /\ "ip:a" \in DOMAIN storage
        /\ "user:1" \notin DOMAIN storage

\* C25: the rate limit is enforced before the AI call: a request is in the
\* chat handler (its AI call under way or answered 200) only after checkLimit
\* has returned allowed = true for it, and a request whose checkLimit result
\* is denied is answered 429 and is never in the chat handler.
C25_LimitEnforcedBeforeAiCall ==
    \A s \in Slots :
        /\ (reqs[s].stage = "handler" \/ reqs[s].status = 200) =>
              (reqs[s].checked /\ reqs[s].allowed)
        /\ (reqs[s].checked /\ ~reqs[s].allowed) =>
              (reqs[s].stage = "done" /\ reqs[s].status = 429)

\* Two guest requests of one address: the first is in the chat handler,
\* admitted, and the second has been answered 429.
C25_Witness ==
    \E s \in Slots, t \in Slots :
        /\ reqs[s].stage = "handler"
        /\ reqs[s].allowed
        /\ reqs[t].status = 429
        /\ KeyOf(reqs[s]) = KeyOf(reqs[t])
        /\ storage[KeyOf(reqs[s])].count = getLimit(reqs[s].user)

\* The POST /api/chat requests admitted under key k in the window that is
\* running at time t.
AdmittedInWindow(k, t) == IF obs[k].active /\ ~WindowOver(obs[k], t) THEN obs[k].admitted ELSE 0

\* C26: the chat route and the status route use one engine: after N admitted
\* POST /api/chat requests of an identity from an address within the running
\* window, GET /api/status of that identity and address answers
\* remaining_requests = limit - N and total_requests = limit.
C26_StatusRouteSeesChatRequests ==
    IsStatus =>
        /\ StatusResponse(last.res).total_requests = getLimit(last.user)
        /\ StatusResponse(last.res).remaining_requests
              = getLimit(last.user) - AdmittedInWindow(LastKey, last.at)

\* GET /api/status has answered for a user with one admitted chat request in
\* the running window, still in its handler, and one slot left.
C26_Witness ==
    /\ IsStatus
    /\ AdmittedInWindow(LastKey, last.at) = 1
    /\ StatusResponse(last.res).remaining_requests = 1
    /\ StatusResponse(last.res).total_requests = 2
    /\ \E s \in Slots : reqs[s].stage = "handler" /\ KeyOf(reqs[s]) = LastKey

\* The requests in flight for key k that checkLimit has answered in the
\* window opened at time start.
InFlight(k, start) ==
    {s \in Slots : /\ reqs[s].checked
                   /\ KeyOf(reqs[s]) = k
                   /\ reqs[s].resetTime - windowSize = start}

\* C27: no spurious denial under concurrency: when the calls of a key's
\* window all belong to K <= L requests that are in flight together (the key
\* was fresh when the first of them ran, L is their limit), all K are
\* admitted and their remaining values are exactly L-1, L-2, ..., L-K.
C27_NoSpuriousDenial ==
    \A k \in AllKeys : \A L \in 1..DefaultPremium :
        LET F == InFlight(k, obs[k].start)
        IN (/\ obs[k].active
            /\ F # {}
            /\ \A s \in F : getLimit(reqs[s].user) = L
            /\ obs[k].admitted = Cardinality({s \in F : reqs[s].allowed})
            /\ Cardinality(F) <= L)
           => /\ \A s \in F : reqs[s].allowed /\ reqs[s].status # 429
              /\ {reqs[s].remaining : s \in F} = (L - Cardinality(F))..(L - 1)
              /\ Cardinality({reqs[s].remaining : s \in F}) = Cardinality(F)

\* Two requests of user 1 (limit 2) are in their handlers together on a key
\* that was fresh: both admitted, one with remaining 1 and one with 0.
C27_Witness ==
    \E s \in Slots, t \in Slots :
        /\ s # t
        /\ reqs[s].stage = "handler" /\ reqs[t].stage = "handler"
        /\ KeyOf(reqs[s]) = "user:1" /\ KeyOf(reqs[t]) = "user:1"
        /\ reqs[s].resetTime = reqs[t].resetTime
        /\ reqs[s].remaining = 1 /\ reqs[t].remaining = 0
        /\ obs["user:1"].admitted = 2

(***************************************************************************)
(* Saturation                                                              *)
(***************************************************************************)
\* The step is a reset of key k.
ResetOf(k) == last'.op = "reset" /\ now' = now /\ getKey(last'.user, last'.ip) = k

\* C28: a saturated key does not heal within its window: while the window of
\* a stored key runs and no reset is made for the key, no step (admission,
\* denial, getStatus, sweep, the clock) removes the entry, moves its window
\* or lowers its count, and every checkLimit call that finds the count at or
\* above the caller's limit is denied and leaves the entry as it is.
C28_SaturatedStaysSaturated ==
    [][\A k \in DOMAIN storage :
         (now' - storage[k].windowStart < windowSize /\ ~ResetOf(k)) =>
            /\ k \in DOMAIN storage'
            /\ storage'[k].windowStart = storage[k].windowStart
            /\ storage'[k].count >= storage[k].count
            /\ (/\ last'.op = "checkLimit"
                /\ now' = now
                /\ getKey(last'.user, last'.ip) = k
                /\ storage[k].count >= getLimit(last'.user))
               => (~last'.res.allowed /\ storage'[k] = storage[k])]_vars

\* A call has been denied on a saturated key after the clock has moved
\* inside the key's window.
C28_Witness ==
    /\ IsCheck
    /\ ~last.res.allowed
    /\ last.found = "active"
    /\ last.before.count = last.res.total
    /\ last.at > last.before.windowStart
    /\ storage[LastKey] = last.before

(***************************************************************************)
(* The end-to-end trace of the specification                               *)
(***************************************************************************)
\* The calls of the trace, in their order.
TraceCalls ==
    <<<<NoUser, "10.0.0.1">>, <<NoUser, "10.0.0.1">>, <<NoUser, "10.0.0.1">>,
      <<NoUser, "10.0.0.1">>, <<Free7, "10.0.0.1">>>>

\* The next call of the trace is made; its result is appended to the trace.
TraceCall ==
    LET i == Len(probe.trace) + 1
        user == TraceCalls[i][1]
        ip == TraceCalls[i][2]
        res == CheckLimitResult(storage, user, ip, now)
    IN /\ i <= Len(TraceCalls)
       /\ CheckLimitCall(user, ip)
       /\ probe' = [probe EXCEPT !.trace = Append(@, [allowed |-> res.allowed,
                                                      remaining |-> res.remaining,
                                                      at |-> now])]
       /\ UNCHANGED <<reqs, race, processEnv, unswept, proc>>

\* Between the calls of the trace: status reports of its callers, calls of a
\* guest at another address, sweeps and the clock.
NextTrace ==
    \/ TraceCall
    \/ \E c \in TraceClients : getStatus(c[1], c[2])
    \/ checkLimit(NoUser, "b")
    \/ cleanup
    \/ TickDefault

SpecTrace == InitDefault /\ [][NextTrace]_vars

\* The results the specification gives for the trace.
TraceExpected ==
    <<[allowed |-> TRUE, remaining |-> 2], [allowed |-> TRUE, remaining |-> 1],
      [allowed |-> TRUE, remaining |-> 0], [allowed |-> FALSE, remaining |-> 0],
      [allowed |-> TRUE, remaining |-> 9]>>

\* C29: with limits 3 / 10 / 50 and a one-hour window, the calls of the trace
\* made within one window answer: three guest calls from 10.0.0.1 allowed
\* with remaining 2, 1, 0, the fourth denied with remaining 0, and the
\* following call of free user 7 from 10.0.0.1 allowed with remaining 9.
C29_EndToEndTrace ==
    (/\ probe.trace # <<>>
     /\ probe.trace[Len(probe.trace)].at - probe.trace[1].at < windowSize)
    => \A i \in 1..Len(probe.trace) :
          /\ probe.trace[i].allowed = TraceExpected[i].allowed
          /\ probe.trace[i].remaining = TraceExpected[i].remaining

\* The whole trace has been made within one window, with the clock moving
\* between its calls.
C29_Witness ==
    /\ Len(probe.trace) = Len(TraceCalls)
    /\ probe.trace[Len(probe.trace)].at - probe.trace[1].at < windowSize
    /\ probe.trace[Len(probe.trace)].at > probe.trace[1].at
    /\ storage["ip:10.0.0.1"].count = DefaultGuest
    /\ storage["user:7"].count = 1

(***************************************************************************)
(* The process and its sweep timer                                         *)
(***************************************************************************)
\* A request is served while the process takes requests.
Serve(user, ip) == proc.serving /\ ~proc.exited /\ checkLimit(user, ip)

\* The process stops taking requests (the server is closed, the test run is over).
StopServing ==
    /\ proc.serving /\ ~proc.exited
    /\ proc' = [proc EXCEPT !.serving = FALSE]
    /\ UNCHANGED <<storage, limits, windowSize, now, obs, last, reqs, race, probe,
                   processEnv, unswept>>

\* The interval timer fires in the running process.
SweepTimerFires == ~proc.exited /\ CleanupTimer

\* clearInterval(rateLimiter._cleanupInterval): the handle the constructor
\* keeps on the engine is cancelled.
ClearInterval ==
    /\ ~proc.exited
    /\ proc.timer # "cleared"
    /\ proc' = [proc EXCEPT !.timer = "cleared"]
    /\ UNCHANGED <<storage, limits, windowSize, now, obs, last, reqs, race, probe,
                   processEnv, unswept>>

\* Nothing but the sweep timer is left to wait for.
OnlyTimerPending == ~proc.serving /\ ~proc.exited

\* The process ends: nothing that holds it is pending.
Exit ==
    /\ OnlyTimerPending
    /\ proc.timer # "ref"
    /\ proc' = [proc EXCEPT !.exited = TRUE]
    /\ UNCHANGED <<storage, limits, windowSize, now, obs, last, reqs, race, probe,
                   processEnv, unswept>>

NextShutdown ==
    \/ \E c \in HttpClients : Serve(c[1], c[2])
    \/ StopServing
    \/ SweepTimerFires
    \/ ClearInterval
    \/ Exit
    \/ ~proc.exited /\ Tick

\* A process with nothing pending that holds it does end.
SpecShutdown == Init /\ [][NextShutdown]_vars /\ WF_vars(Exit)

\* The step is a run of cleanup().
SweepStep == last'.op = "cleanup" /\ (last' # last \/ storage' # storage)

C30_WitnessCleared ==
    /\ proc.timer = "cleared"
    /\ ~proc.exited
    /\ storage # <<>>

(***************************************************************************)
(* Denied calls and the store                                              *)
(***************************************************************************)
\* Every limit of the table is a number >= 1.
LimitsAtLeastOne == \A tier \in DOMAIN limits : limits[tier] >= 1

\* C31: with configured limits >= 1, a checkLimit call that returns
\* allowed = false leaves the whole store unchanged (same keys, same count
\* and same windowStart for every key): a denied request consumes no quota
\* and neither restarts nor extends the window.
C31_DeniedCallLeavesStore ==
    [][(LimitsAtLeastOne /\ last'.op = "checkLimit" /\ now' = now /\ ~last'.res.allowed)
          => storage' = storage]_vars

(***************************************************************************)
(* A status report followed by a call of its key                           *)
(***************************************************************************)
FollowClients == {<<Guest, "a">>, <<Free1, "a">>, <<FreeNoId, "a">>, <<Constructor3, "a">>}

\* A call as the observer notes it: the call, the entry its key has in the
\* store st the call leaves, and whether the call comes straight after the
\* status report noted before it (no call and no clock step in between).
Noted(op, user, ip, res, st, direct) ==
    [call |-> Call(op, user, ip, res),
     stored |-> getKey(user, ip) \in DOMAIN st,
     after |-> EntryOf(st, getKey(user, ip)),
     direct |-> direct]

\* The last engine call is getStatus(user, ip), made at the present time.
JustReported(user, ip) ==
    last.op = "getStatus" /\ last.user = user /\ last.ip = ip /\ last.at = now

\* probe.trace holds the last status report, and after it the first
\* checkLimit call of its key, no reset of the key in between.
getStatusNoted(user, ip) ==
    /\ GetStatusCall(user, ip)
    /\ probe' = [probe EXCEPT !.trace =
          <<Noted("getStatus", user, ip, GetStatusResult(storage, user, ip, now),
                  GetStatusStorage(storage, user, ip, now), FALSE)>>]
    /\ UNCHANGED <<reqs, race, processEnv, unswept, proc>>

checkLimitNoted(user, ip) ==
    /\ CheckLimitCall(user, ip)
    /\ probe' = [probe EXCEPT !.trace =
          IF Len(@) = 1 /\ getKey(@[1].call.user, @[1].call.ip) = getKey(user, ip)
          THEN <<@[1], Noted("checkLimit", user, ip,
                             CheckLimitResult(storage, user, ip, now),
                             CheckLimitStorage(storage, user, ip, now),
                             JustReported(user, ip))>>
          ELSE IF Len(@) = 2 THEN <<>> ELSE @]
    /\ UNCHANGED <<reqs, race, processEnv, unswept, proc>>

resetNoted(user, ip) ==
    /\ ResetCall(user, ip)
    /\ probe' = [probe EXCEPT !.trace =
          IF Len(@) = 2 \/ (Len(@) = 1 /\ getKey(@[1].call.user, @[1].call.ip) = getKey(user, ip))
          THEN <<>> ELSE @]
    /\ UNCHANGED <<reqs, race, processEnv, unswept, proc>>

NextFollow ==
    \/ \E c \in FollowClients : getStatusNoted(c[1], c[2])
    \/ \E c \in FollowClients : checkLimitNoted(c[1], c[2])
    \/ \E c \in FollowClients : resetNoted(c[1], c[2])
    \/ cleanup
    \/ Tick

SpecFollow == Init /\ [][NextFollow]_vars

\* A status report and the call that followed it have been noted.
PairNoted == Len(probe.trace) = 2

\* C32: for a key that is absent or expired, getStatus at time t reports
\* resetTime = t + windowSize and stores no window, and the following
\* checkLimit of the key, at time t2 >= t, starts the window at t2 and
\* reports resetTime = t2 + windowSize; the two reported reset times are
\* equal only when t2 = t.
C32_StatusAndCallResetTimes ==
    (PairNoted /\ probe.trace[1].call.found # "active") =>
        LET status == probe.trace[1]
            check == probe.trace[2]
        IN /\ status.call.res.resetTime = status.call.at + windowSize
           /\ status.stored = (status.call.found # "absent")
           /\ status.after = status.call.before
           /\ check.call.found # "active"
           /\ check.call.at >= status.call.at
           /\ check.stored
           /\ check.after.windowStart = check.call.at
           /\ check.call.res.resetTime = check.call.at + windowSize
           /\ (check.call.res.resetTime = status.call.res.resetTime)
                 <=> (check.call.at = status.call.at)

\* A status report on a key never used, and the key's first call after the
\* clock has moved: the two reset times differ.
C32_Witness ==
    /\ PairNoted
    /\ probe.trace[1].call.found = "absent"
    /\ probe.trace[2].call.at > probe.trace[1].call.at
    /\ probe.trace[2].call.res.allowed
    /\ probe.trace[2].call.res.resetTime > probe.trace[1].call.res.resetTime

\* A status report on a stored window that has run out, and a call of the
\* key at the same time: the two reset times are equal.
C32_WitnessExpired ==
    /\ PairNoted
    /\ probe.trace[1].call.found = "expired"
    /\ probe.trace[2].call.found = "expired"
    /\ probe.trace[2].call.at = probe.trace[1].call.at
    /\ probe.trace[2].call.res.resetTime = probe.trace[1].call.res.resetTime

\* r > 0 for the remaining value r of a result; NaN > 0 and f > 0 for a
\* function f are false.
RemainingPositive(res) == res.numeric /\ res.remaining > 0

\* C33: getStatus and checkLimit agree: when getStatus(identity, address) at
\* time t returns remaining = r, a checkLimit(identity, address) at the same
\* time t with no operation in between is admitted if and only if r > 0, and
\* when admitted it returns remaining = r - 1 and the same total and userType.
C33_StatusAndCallAgree ==
    (PairNoted /\ probe.trace[2].direct) =>
        LET status == probe.trace[1].call.res
            check == probe.trace[2].call.res
        IN /\ check.allowed <=> RemainingPositive(status)
           /\ check.allowed =>
                 /\ check.numeric
                 /\ check.remaining = status.remaining - 1
                 /\ check.total = status.total
                 /\ check.userType = status.userType

\* A status report with remaining 1 on a running window, and straight after
\* it the call that takes the last slot.
C33_Witness ==
    /\ PairNoted
    /\ probe.trace[2].direct
    /\ probe.trace[1].call.found = "active"
    /\ probe.trace[1].call.res.remaining = 1
    /\ probe.trace[2].call.res.allowed
    /\ probe.trace[2].call.res.remaining = 0

\* A guest's status report on a window that holds more calls than the guest
\* limit (a free caller without id shares the key), and straight after it
\* the guest's denied call.
C33_WitnessDenied ==
    /\ PairNoted
    /\ probe.trace[2].direct
    /\ probe.trace[1].call.before.count > probe.trace[1].call.res.total
    /\ probe.trace[1].call.res.remaining = 0
    /\ ~probe.trace[2].call.res.allowed

(***************************************************************************)
(* The fixed window                                                        *)
(***************************************************************************)
\* C34: the window is fixed, not sliding: while the entry of a key is stored
\* and its window has not run out, no step changes its windowStart, and
\* every checkLimit and getStatus result of the key within the window,
\* admitted or denied, reports resetTime = windowStart + windowSize.
C34_WindowStartFixed ==
    /\ [][\A k \in DOMAIN storage \cap DOMAIN storage' :
             now' - storage[k].windowStart < windowSize =>
                storage'[k].windowStart = storage[k].windowStart]_vars
    /\ []((IsResult /\ last.found = "active") =>
             last.res.resetTime = last.before.windowStart + windowSize)

\* A status report made after the clock has moved inside a window that is
\* full: it reports the reset time of the window's start, and the entry is
\* as the calls left it.
C34_Witness ==
    /\ IsStatus
    /\ last.found = "active"
    /\ last.at > last.before.windowStart
    /\ last.before.count >= 2
    /\ last.res.remaining = 0
    /\ last.res.resetTime = last.before.windowStart + windowSize
    /\ storage[LastKey].windowStart = last.before.windowStart

\* C35: with windowSize > 0 and a clock that never goes back, the resetTime
\* of every checkLimit and getStatus result is strictly greater than the time
\* of the call and at most the time of the call plus windowSize.
C35_ResetTimeAheadOfCall ==
    (windowSize > 0 /\ IsResult) =>
        /\ last.res.resetTime > last.at
        /\ last.res.resetTime <= last.at + windowSize

\* A call made in the last clock unit of a running window: its reset time is
\* one unit ahead, less than a whole window.
C35_Witness ==
    /\ IsCheck
    /\ last.found = "active"
    /\ last.res.resetTime = last.at + 1
    /\ windowSize > 1

\* A status report on a window that has run out: its reset time is a whole
\* window ahead.
C35_WitnessExpired ==
    /\ IsStatus
    /\ last.found = "expired"
    /\ last.res.resetTime = last.at + windowSize

\* C36: with configured limits >= 1, every entry of the store has
\* count >= 1 and windowStart <= now in every reachable state (an entry is
\* only created by a checkLimit call that admits and counts that call).
C36_EntriesAreCounted ==
    LimitsAtLeastOne =>
        \A k \in DOMAIN storage : storage[k].count >= 1 /\ storage[k].windowStart <= now

(***************************************************************************)
(* Admissions over time                                                    *)
(***************************************************************************)
\* One caller for each limit of the table, each with a key of its own.
BurstClients == {<<Guest, "a">>, <<Free1, "a">>, <<Premium2, "a">>}

BurstKeys == {getKey(c[1], c[2]) : c \in BurstClients}

\* probe.trace holds, for each key, the times of its admitted calls.
InitBurst == Construct(Envs) /\ probe = [NoProbe EXCEPT !.trace = [k \in BurstKeys |-> <<>>]]

checkLimitTimed(user, ip) ==
    /\ CheckLimitCall(user, ip)
    /\ probe' = [probe EXCEPT !.trace[getKey(user, ip)] =
          IF CheckLimitResult(storage, user, ip, now).allowed THEN Append(@, now) ELSE @]
    /\ UNCHANGED <<reqs, race, processEnv, unswept, proc>>

NextBurst ==
    \/ \E c \in BurstClients : checkLimitTimed(c[1], c[2])
    \/ \E c \in BurstClients : getStatus(c[1], c[2])
    \/ cleanup
    \/ Tick

SpecBurst == InitBurst /\ [][NextBurst]_vars

\* The calls of key k admitted in the interval [t, t + windowSize).
AdmittedFrom(k, t) ==
    Cardinality({i \in 1..Len(probe.trace[k]) :
                    t <= probe.trace[k][i] /\ probe.trace[k][i] < t + windowSize})

\* C37: burst bound of the fixed window: for a key whose callers all have
\* limit L >= 1, with no reset, the calls admitted in any interval
\* [t, t + windowSize) number at most 2L - 1; successive windows of a key
\* never overlap (a window that replaces another starts at or after the
\* other's end).
C37_BurstBound ==
    /\ [](\A c \in BurstClients : \A t \in Times :
             getLimit(c[1]) >= 1 =>
                AdmittedFrom(getKey(c[1], c[2]), t) <= 2 * getLimit(c[1]) - 1)
    /\ [][\A k \in DOMAIN storage \cap DOMAIN storage' :
             storage'[k].windowStart # storage[k].windowStart =>
                storage'[k].windowStart >= storage[k].windowStart + windowSize]_vars

\* The bound is reached across a window boundary: 2L - 1 = 3 calls of the
\* free user (L = 2) are admitted within [t, t + windowSize) for some t > 0.
C37_Witness ==
    \E t \in Times :
        /\ t > 0
        /\ AdmittedFrom("user:1", t) = 3
        /\ Len(probe.trace["user:1"]) = 4
        /\ storage["user:1"].count = 2

(***************************************************************************)
(* POST /api/chat with the AI call made for real                           *)
(***************************************************************************)
\* How the awaited generateText call ends: it returns a text, or it throws
\* an error whose message contains 'api key', 'quota', both or neither.
Returned == [threw |-> FALSE, apiKey |-> FALSE, quota |-> FALSE]
Threw(apiKey, quota) == [threw |-> TRUE, apiKey |-> apiKey, quota |-> quota]

AiOutcomes == {Returned} \cup {Threw(a, q) : a \in BOOLEAN, q \in BOOLEAN}

\* The status the chat handler answers with: res.json, or the catch block.
HandlerStatus(outcome) ==
    IF ~outcome.threw THEN 200
    ELSE IF outcome.apiKey THEN 401
    ELSE IF outcome.quota THEN 402
    ELSE 500

\* The chat handler gives the slot back when the AI call has failed.
HandlerStorageRefundsErrors(st, r, outcome) ==
    IF outcome.threw /\ KeyOf(r) \in DOMAIN st
    THEN StorageSet(st, KeyOf(r), [st[KeyOf(r)] EXCEPT !.count = @ - 1])
    ELSE st

\* The store the chat handler leaves for request r: it never touches the engine.
HandlerStorage(st, r, outcome) == st

\* The chat handler's awaited AI call has ended; the response is built with
\* req.rateLimit.remaining as the middleware left it.
ChatHandlerAi(s, outcome) ==
    /\ reqs[s].stage = "handler"
    /\ reqs' = [reqs EXCEPT ![s].stage = "done", ![s].status = HandlerStatus(outcome)]
    /\ storage' = HandlerStorage(storage, reqs[s], outcome)
    /\ UNCHANGED <<limits, windowSize, now, obs, last, race, probe, processEnv, unswept, proc>>

\* The caller of the route here: one user, whose requests overlap.
AiClients == {<<Free1, "a">>}

NextAi ==
    \/ \E s \in Slots, c \in AiClients : Arrive(s, c)
    \/ \E s \in Slots : RateLimitMiddleware(s)
    \/ \E s \in Slots, outcome \in AiOutcomes : ChatHandlerAi(s, outcome)
    \/ \E s \in Slots : Respond(s)
    \/ CleanupTimer
    \/ Tick

SpecAi == Init /\ [][NextAi]_vars

\* The requests in flight that were admitted under key k in the window that
\* is stored for k.
CountedInFlight(k) == {s \in InFlight(k, storage[k].windowStart) : reqs[s].allowed}

\* C38: quota is consumed at admission and never refunded: no step lowers
\* the count of an entry whose windowStart is unchanged, and an admitted
\* POST /api/chat request stays counted whatever the outcome of the AI call
\* (200, 401, 402 or 500): the step that answers it leaves the store as it
\* was, and the entry of its window holds at least the admitted requests
\* still in flight.
C38_QuotaNeverRefunded ==
    /\ [][\A k \in DOMAIN storage \cap DOMAIN storage' :
             storage'[k].windowStart = storage[k].windowStart =>
                storage'[k].count >= storage[k].count]_vars
    /\ [][\A s \in Slots :
             (reqs[s].stage = "handler" /\ reqs'[s].stage = "done") =>
                /\ storage' = storage
                /\ reqs'[s].remaining = reqs[s].remaining]_vars
    /\ [](\A k \in DOMAIN storage : storage[k].count >= Cardinality(CountedInFlight(k)))

\* Two admitted requests of user 1 have been answered, one with 500 and one
\* with 401, and both are still counted in the running window.
C38_Witness ==
    \E s \in Slots, t \in Slots :
        /\ reqs[s].stage = "done" /\ reqs[s].status = 500
        /\ reqs[t].stage = "done" /\ reqs[t].status = 401
        /\ KeyOf(reqs[s]) = "user:1" /\ KeyOf(reqs[t]) = "user:1"
        /\ CountedInFlight("user:1") = {s, t}
        /\ storage["user:1"].count = 2
        /\ now > storage["user:1"].windowStart

(***************************************************************************)
(* The tier and the limit a result reports                                 *)
(***************************************************************************)
\* C39: the reported limit matches the reported tier: in every checkLimit
\* and getStatus result, userType names a tier of the limit table and total
\* is the limit configured for it, for every identity, identities whose
\* tier is not in the table included.
C39_TotalIsLimitOfReportedTier ==
    IsResult =>
        /\ last.res.userType \in DOMAIN limits
        /\ last.res.numeric
        /\ last.res.total = limits[last.res.userType]

====
